---- MODULE Spec2Model ----
(***************************************************************************)
(* Model of the HTTP facade over the graph store (src/app.py): the graph   *)
(* of User/Group nodes and FOLLOWS/SUBSCRIBED relationships, the queries   *)
(* the handlers send, and the handlers themselves, one query per step.     *)
(***************************************************************************)
EXTENDS Integers, Sequences, FiniteSets, Bags, TLC

\* ---------------------------------------------------------------- bounds
\* number of distinct ids the requests name
MaxId == 2
\* most nodes the graph holds: a step that would exceed it is not taken
MaxNodes == 2
\* most relationships the graph holds, copies counted
MaxEdges == 4
\* longest follows / subscribed list of a body
MaxList == 1

Ids == {8 + i : i \in 1..MaxId}
Labels == {"User", "Group"}
Profiles ==
  { [name |-> "A", screen_name |-> "a", sex |-> 1, city |-> "X"],
    [name |-> "B", screen_name |-> "b", sex |-> 2, city |-> "Y"] }

\* ------------------------------------------------------- program constants
SECRET_TOKEN == "tokenchik"
TopLimit == 5

NoCredential == "<none>"
Credentials == {NoCredential, SECRET_TOKEN, "wrong"}
Clients == {"a", "b"}

VARIABLES graph, reqs

vars == <<graph, reqs>>

\* ------------------------------------------------------------ the graph
EmptyGraph == [nodes |-> <<>>, edges |-> EmptyBag]

NodeIds(g) == DOMAIN g.nodes

Min(a, b) == IF a < b THEN a ELSE b

\* the store gives a created node the smallest internal id not in use
FreshNode(g) ==
  CHOOSE n \in 1..(Cardinality(NodeIds(g)) + 1) :
    /\ n \notin NodeIds(g)
    /\ \A m \in 1..(n - 1) : m \in NodeIds(g)

\* MATCH (n:<label> {id: $id})
Match(g, label, id) ==
  {n \in NodeIds(g) : g.nodes[n].label = label /\ g.nodes[n].id = id}

Incident(g, M) == {e \in DOMAIN g.edges : e.src \in M \/ e.dst \in M}

Fits(g) ==
  /\ Cardinality(NodeIds(g)) <= MaxNodes
  /\ BagCardinality(g.edges) <= MaxEdges

\* ---------------------------------------------------------- the queries
\* each query is one implicit transaction: it either applies or fails whole
Ok(g) == [ok |-> TRUE, g |-> g]
Failed(g) == [ok |-> FALSE, g |-> g]

create_node_query(g, body) ==
  IF body.shape # "full"
  THEN Failed(g)
  ELSE LET new == FreshNode(g)
           rec == [label |-> body.label, id |-> body.id, name |-> body.name,
                   screen_name |-> body.screen_name, sex |-> body.sex,
                   city |-> body.city]
       IN Ok([g EXCEPT !.nodes =
                [n \in NodeIds(g) \cup {new} |->
                   IF n = new THEN rec ELSE g.nodes[n]]])

CreateEdges(g, type, from, to) ==
  [g EXCEPT !.edges =
     g.edges (+) SetToBag({[type |-> type, src |-> u, dst |-> f] :
                             u \in from, f \in to})]

follow_query(g, id, follow_id) ==
  Ok(CreateEdges(g, "FOLLOWS", Match(g, "User", id),
                 Match(g, "User", follow_id)))

subscribe_query(g, id, subscribe_id) ==
  Ok(CreateEdges(g, "SUBSCRIBED", Match(g, "User", id),
                 Match(g, "User", subscribe_id)))

RestrictEdges(g, keep) ==
  [g EXCEPT !.edges = [e \in keep |-> g.edges[e]]]

delete_out_query(g, label, id) ==
  Ok(RestrictEdges(g, {e \in DOMAIN g.edges :
                         e.src \notin Match(g, label, id)}))

delete_in_query(g, label, id) ==
  Ok(RestrictEdges(g, {e \in DOMAIN g.edges :
                         e.dst \notin Match(g, label, id)}))

\* mutant: only the first matching node is deleted
delete_node_query_first(g, label, id) ==
  LET M == Match(g, label, id)
  IN IF Incident(g, M) # {}
     THEN Failed(g)
     ELSE IF M = {} THEN Ok(g)
     ELSE LET first == CHOOSE n \in M : \A m \in M : n <= m
          IN Ok([g EXCEPT !.nodes = [n \in NodeIds(g) \ {first} |-> g.nodes[n]]])

\* mutant: a DELETE that matches no node is an error
delete_node_query_strict(g, label, id) ==
  LET M == Match(g, label, id)
  IN IF Incident(g, M) # {} \/ M = {}
     THEN Failed(g)
     ELSE Ok([g EXCEPT !.nodes = [n \in NodeIds(g) \ M |-> g.nodes[n]]])

\* mutant: the store's refusal is swallowed and the query reports success
delete_node_query_swallow(g, label, id) ==
  LET M == Match(g, label, id)
  IN IF Incident(g, M) # {}
     THEN Ok(g)
     ELSE Ok([g EXCEPT !.nodes = [n \in NodeIds(g) \ M |-> g.nodes[n]]])

\* DELETE n (not DETACH DELETE): the store refuses to delete a node that
\* still has relationships, and the whole query fails
delete_node_query(g, label, id) ==
  LET M == Match(g, label, id)
  IN IF Incident(g, M) # {}
     THEN Failed(g)
     ELSE Ok([g EXCEPT !.nodes = [n \in NodeIds(g) \ M |-> g.nodes[n]]])

run_query(g, q) ==
  CASE q.name = "create" -> create_node_query(g, q.body)
    [] q.name = "follow" -> follow_query(g, q.id, q.arg)
    [] q.name = "subscribe" -> subscribe_query(g, q.id, q.arg)
    [] q.name = "delete_out" -> delete_out_query(g, q.label, q.id)
    [] q.name = "delete_in" -> delete_in_query(g, q.label, q.id)
    [] q.name = "delete_node" -> delete_node_query(g, q.label, q.id)

\* --------------------------------------------------------- request bodies
\* a JSON body: "none" is a missing or empty body, "partial" a non-empty
\* object that lacks a field the create query binds, "full" has them all;
\* has is the set of optional keys the body carries
IdLists == UNION {[1..k -> Ids] : k \in 0..MaxList}

EmptyBody ==
  [shape |-> "none", label |-> "User", id |-> 0, name |-> "", screen_name |-> "",
   sex |-> 0, city |-> "", has |-> {}, follows |-> <<>>, subscribed |-> <<>>]

PartialBodies == {[EmptyBody EXCEPT !.shape = "partial", !.id = i] : i \in Ids}

FullBody(label, id, p, has, follows, subscribed) ==
  [shape |-> "full", label |-> label, id |-> id, name |-> p.name,
   screen_name |-> p.screen_name, sex |-> p.sex, city |-> p.city, has |-> has,
   follows |-> IF "follows" \in has THEN follows ELSE <<>>,
   subscribed |-> IF "subscribed" \in has THEN subscribed ELSE <<>>]

FullBodies(labels, profiles, keys) ==
  {FullBody(l, i, p, h, f, g) :
     l \in labels, i \in Ids, p \in profiles, h \in SUBSET keys,
     f \in IdLists, g \in IdLists}

Malformed == {EmptyBody} \cup PartialBodies

ProfileA == CHOOSE p \in Profiles : p.name = "A"

\* bodies without subscription keys, of either label and any profile
Bodies == Malformed \cup FullBodies(Labels, Profiles, {"follows"})

\* bodies with any of the optional keys
SubscriptionBodies ==
  FullBodies(Labels, {ProfileA}, {"follows", "subscribed", "subscribes"})

\* User bodies with any of the optional keys
UserBodies ==
  FullBodies({"User"}, {ProfileA}, {"follows", "subscribed", "subscribes"})

\* bodies of the requests that run concurrently
ConcurrentBodies == FullBodies({"User"}, {ProfileA}, {"follows"})

\* one body of each shape
BodySamples == {CHOOSE b \in Bodies : b.shape = s : s \in {"none", "partial", "full"}}

\* ------------------------------------------------------------- requests
Idle ==
  [kind |-> "idle", cred |-> NoCredential, body |-> EmptyBody, label |-> "User",
   id |-> 0, user_id |-> <<>>, n |-> 0, status |-> 0, err |-> "",
   seen |-> [nodes |-> 0, rels |-> 0, loops |-> 0], result |-> <<>>]

Running(r) == r.kind \in {"post", "delete"} /\ r.status = 0

\* mutant: the token comparison is dropped
token_is_valid_dropped(cred) == TRUE

\* the dependency of both mutating routes: HTTPBearer rejects a request
\* without credentials, token_is_valid one whose token is not the secret
token_is_valid(cred) == cred = SECRET_TOKEN

Authorized(cred) == cred # NoCredential /\ token_is_valid(cred)

\* the queries a POST /nodes sends, in order
FollowQueries(body) ==
  IF "follows" \in body.has
  THEN [k \in 1..Len(body.follows) |->
          [name |-> "follow", label |-> "User", id |-> body.id,
           arg |-> body.follows[k], body |-> EmptyBody]]
  ELSE <<>>

SubscribeQueries(body) ==
  IF "subscribes" \in body.has
  THEN [k \in 1..Len(body.subscribed) |->
          [name |-> "subscribe", label |-> "User", id |-> body.id,
           arg |-> body.subscribed[k], body |-> EmptyBody]]
  ELSE <<>>

post_plan(body) ==
  <<[name |-> "create", label |-> body.label, id |-> body.id, arg |-> 0,
     body |-> body]>>
  \o FollowQueries(body) \o SubscribeQueries(body)

\* node_data["subscribed"] is read under the test "subscribes" in node_data
RaisesKeyError(body) ==
  "subscribes" \in body.has /\ "subscribed" \notin body.has

\* mutant: the node is removed before its relationships
delete_plan_node_first(label, id) ==
  [k \in 1..3 |->
     [name |-> <<"delete_node", "delete_out", "delete_in">>[k],
      label |-> label, id |-> id, arg |-> 0, body |-> EmptyBody]]

\* the queries a DELETE /nodes/{label}/{id} sends, in order
delete_plan(label, id) ==
  [k \in 1..3 |->
     [name |-> <<"delete_out", "delete_in", "delete_node">>[k],
      label |-> label, id |-> id, arg |-> 0, body |-> EmptyBody]]

Plan(r) ==
  IF r.kind = "post" THEN post_plan(r.body) ELSE delete_plan(r.label, r.id)

Issued(r) == [k \in 1..r.n |-> Plan(r)[k].name]

\* mutant: the error is logged and the handler goes on
Raise_and_go_on(r) == [r EXCEPT !.n = r.n + 1, !.err = "query"]

\* run_query's except branch: the error is logged and surfaces as HTTP 500
Raise(r) == [r EXCEPT !.n = r.n + 1, !.status = 500, !.err = "query"]

\* run_query returned: the handler goes on to its next query, or returns
Return(r) ==
  LET last == r.n + 1 = Len(Plan(r))
      keyErr == r.kind = "post" /\ RaisesKeyError(r.body)
  IN [r EXCEPT !.n = r.n + 1,
               !.status = IF ~last THEN 0 ELSE IF keyErr THEN 500 ELSE 200,
               !.err = IF last /\ keyErr THEN "KeyError" ELSE ""]

\* ------------------------------------------------------------- handlers
\* POST /nodes: the auth dependency, the body test, then the queries
create_node_and_relationships(c, cred, body) ==
  /\ ~Running(reqs[c])
  /\ reqs' = [reqs EXCEPT ![c] =
       IF ~Authorized(cred)
       THEN [Idle EXCEPT !.kind = "post", !.cred = cred, !.status = 401,
                         !.body = [EmptyBody EXCEPT !.shape = body.shape]]
       ELSE [Idle EXCEPT !.kind = "post", !.cred = cred, !.body = body,
                         !.label = body.label, !.id = body.id,
                         !.status = IF body.shape = "none" THEN 400 ELSE 0]]
  /\ UNCHANGED graph

\* what a DELETE finds when it starts: the nodes it names, the relationships
\* incident to them, and those among them that join a node to itself
Seen(g, label, id) ==
  LET M == Match(g, label, id)
  IN [nodes |-> Cardinality(M),
      rels |-> Cardinality(Incident(g, M)),
      loops |-> Cardinality({e \in Incident(g, M) : e.src = e.dst})]

\* DELETE /nodes/{label}/{node_id}: the auth dependency, then the queries
delete_node_and_relations(c, cred, label, id) ==
  /\ ~Running(reqs[c])
  /\ reqs' = [reqs EXCEPT ![c] =
       [Idle EXCEPT !.kind = "delete", !.cred = cred, !.label = label,
                    !.id = id,
                    !.seen = IF Authorized(cred) THEN Seen(graph, label, id)
                             ELSE Idle.seen,
                    !.status = IF ~Authorized(cred) THEN 401 ELSE 0]]
  /\ UNCHANGED graph

\* the next query of a running POST or DELETE is executed by the store
Step(c) ==
  /\ Running(reqs[c])
  /\ LET r == reqs[c]
         res == run_query(graph, Plan(r)[r.n + 1])
     IN /\ Fits(res.g)
        /\ graph' = res.g
        /\ reqs' = [reqs EXCEPT ![c] = IF res.ok THEN Return(r) ELSE Raise(r)]

\* the next query of a running POST or DELETE fails in the backend
query_fails(c) ==
  /\ Running(reqs[c])
  /\ reqs' = [reqs EXCEPT ![c] = Raise(reqs[c])]
  /\ UNCHANGED graph

\* ---------------------------------------------------------------- reads
Digits == <<"0", "1", "2", "3", "4", "5", "6", "7", "8", "9">>

DigitValue(ch) == (CHOOSE d \in 1..10 : Digits[d] = ch) - 1

IsNumeric(s) ==
  Len(s) > 0 /\ \A k \in 1..Len(s) : \E d \in 1..10 : Digits[d] = s[k]

RECURSIVE Decimal(_)
\* the path segment a client writes for the integer id i
Decimal(i) ==
  IF i < 10 THEN <<Digits[i + 1]>>
  ELSE Decimal(i \div 10) \o <<Digits[(i % 10) + 1]>>

RECURSIVE ParseDecimal(_)
ParseDecimal(s) ==
  IF Len(s) = 0 THEN 0
  ELSE 10 * ParseDecimal(SubSeq(s, 1, Len(s) - 1)) + DigitValue(s[Len(s)])

\* MATCH (u:User {id: toInteger($user_id)}): toInteger of a string that is
\* no number is null, and a null id matches no node
MatchUserId(g, user_id) ==
  IF IsNumeric(user_id) THEN Match(g, "User", ParseDecimal(user_id)) ELSE {}

UserIdPaths == {Decimal(i) : i \in Ids} \cup {<<"x">>}

\* the responses GET /user/{user_id} can give: result[0] is whichever
\* matching node the store lists first
get_user_responses(g, user_id) ==
  LET M == MatchUserId(g, user_id)
  IN IF M = {}
     THEN {[status |-> 404, result |-> <<>>]}
     ELSE {[status |-> 200,
            result |-> <<[id |-> g.nodes[n].id, name |-> g.nodes[n].name,
                          screen_name |-> g.nodes[n].screen_name,
                          sex |-> g.nodes[n].sex, city |-> g.nodes[n].city]>>] :
             n \in M}

\* number of relationships of the type that end in a node of N
InCount(g, type, N) ==
  BagCardinality([e \in {e \in DOMAIN g.edges : e.type = type /\ e.dst \in N}
                    |-> g.edges[e]])

\* MATCH (u:<label>)<-[:<type>]-() RETURN u.id, u.name, COUNT(*): one row per
\* distinct (id, name) among the matched nodes, counting the matched
\* relationships of all the nodes that share it
CountRows(g, label, type) ==
  LET matched == {n \in NodeIds(g) :
                    g.nodes[n].label = label /\ InCount(g, type, {n}) > 0}
      keys == {<<g.nodes[n].id, g.nodes[n].name>> : n \in matched}
  IN {[id |-> k[1], name |-> k[2],
       count |-> InCount(g, type, {n \in matched :
                   <<g.nodes[n].id, g.nodes[n].name>> = k})] : k \in keys}

\* ORDER BY count DESC LIMIT 5: rows of equal count come in any order
TopRows(rows) ==
  LET N == Cardinality(rows)
      sorted == {f \in [1..N -> rows] :
                   /\ \A i, j \in 1..N : i # j => f[i] # f[j]
                   /\ \A i, j \in 1..N : i < j => f[i].count >= f[j].count}
  IN {SubSeq(f, 1, Min(N, TopLimit)) : f \in sorted}

get_top_users_responses(g) == TopRows(CountRows(g, "User", "FOLLOWS"))

get_top_groups_responses(g) == TopRows(CountRows(g, "Group", "SUBSCRIBED"))

Read(c, kind, user_id, status, result) ==
  /\ ~Running(reqs[c])
  /\ reqs' = [reqs EXCEPT ![c] =
       [Idle EXCEPT !.kind = kind, !.user_id = user_id, !.status = status,
                    !.result = result]]
  /\ UNCHANGED graph

\* GET /user/{user_id}
get_user(c, user_id) ==
  \E resp \in get_user_responses(graph, user_id) :
    Read(c, "get_user", user_id, resp.status, resp.result)

\* GET /top-users
get_top_users(c) ==
  \E rows \in get_top_users_responses(graph) :
    Read(c, "get_top_users", <<>>, 200, rows)

\* GET /top-groups
get_top_groups(c) ==
  \E rows \in get_top_groups_responses(graph) :
    Read(c, "get_top_groups", <<>>, 200, rows)

\* ------------------------------------------------------- specifications
Init ==
  /\ graph = EmptyGraph
  /\ reqs = [c \in Clients |-> Idle]

\* the mutating requests of client c; a rejected request's body is not read,
\* so one body of each shape is tried with a credential that is rejected
Mutations(c, creds, bodies, labels) ==
  \/ \E cred \in creds :
       \E body \in IF cred = SECRET_TOKEN THEN bodies ELSE BodySamples :
         create_node_and_relationships(c, cred, body)
  \/ \E cred \in creds, label \in labels, id \in Ids :
       delete_node_and_relations(c, cred, label, id)
  \/ Step(c)

Reads(c) ==
  \/ \E user_id \in UserIdPaths : get_user(c, user_id)
  \/ get_top_users(c)
  \/ get_top_groups(c)

\* one client: every request runs to its response before the next starts
Next == Mutations("a", Credentials, Bodies, Labels) \/ Reads("a")

Spec == Init /\ [][Next]_vars

\* one client sending bodies with the subscription keys
NextSub == Mutations("a", {SECRET_TOKEN}, SubscriptionBodies, Labels)

SpecSub == Init /\ [][NextSub]_vars

\* one client, and a backend in which any query may fail
NextFail ==
  \/ Mutations("a", {SECRET_TOKEN}, UserBodies, {"User"})
  \/ query_fails("a")

SpecFail == Init /\ [][NextFail]_vars

\* two clients whose requests interleave query by query
NextConc ==
  \E c \in Clients : Mutations(c, {SECRET_TOKEN}, ConcurrentBodies, {"User"})

SpecConc == Init /\ [][NextConc]_vars

\* ---------------------------------------------------------------- claims
Done(r, kind) == r.kind = kind /\ r.status = 200

Submitted(body) ==
  [id |-> body.id, name |-> body.name, screen_name |-> body.screen_name,
   sex |-> body.sex, city |-> body.city]

HasEdge(g, type, u, f) == [type |-> type, src |-> u, dst |-> f] \in DOMAIN g.edges

\* C1: after a successful POST /nodes of a User with id i, GET /user/i answers
\* 200 with exactly the submitted id, name, screen_name, sex and city, also
\* when a User with id i was created earlier with other fields
C1_CreateThenFetch ==
  \A c \in Clients :
    (Done(reqs[c], "post") /\ reqs[c].label = "User") =>
      \A resp \in get_user_responses(graph, Decimal(reqs[c].id)) :
        /\ resp.status = 200
        /\ resp.result = <<Submitted(reqs[c].body)>>

\* C2: after a successful DELETE /nodes/User/{id} no User node with the id
\* remains, no relationship is left without one of its nodes, and
\* GET /user/{id} answers 404
C2_DeleteRemoves ==
  \A c \in Clients :
    (Done(reqs[c], "delete") /\ reqs[c].label = "User") =>
      /\ Match(graph, "User", reqs[c].id) = {}
      /\ \A e \in DOMAIN graph.edges :
           e.src \in NodeIds(graph) /\ e.dst \in NodeIds(graph)
      /\ \A resp \in get_user_responses(graph, Decimal(reqs[c].id)) :
           resp.status = 404

\* a DELETE has succeeded that found several nodes sharing the id, one of
\* them following itself
C2_Witness ==
  \E c \in Clients :
    /\ Done(reqs[c], "delete") /\ reqs[c].label = "User"
    /\ reqs[c].seen.nodes >= 2
    /\ reqs[c].seen.loops >= 1

\* C3: the graph holds at most one node for each (label, id) pair
C3_IdUnique ==
  \A n, m \in NodeIds(graph) :
    (graph.nodes[n].label = graph.nodes[m].label
       /\ graph.nodes[n].id = graph.nodes[m].id) => n = m

\* C4: a POST /nodes or DELETE /nodes request whose credential is missing or
\* is not the secret is answered 401, sends no query and leaves the graph
\* unchanged, whatever its body
C4_AuthGuard ==
  [][\A c \in Clients :
       (/\ reqs'[c] # reqs[c]
        /\ reqs'[c].kind \in {"post", "delete"}
        /\ reqs'[c].cred # SECRET_TOKEN) =>
         (reqs'[c].status = 401 /\ reqs'[c].n = 0 /\ graph' = graph)]_vars

\* a request with a full body and a wrong token has been rejected while the
\* graph holds nodes
C4_Witness ==
  \E c \in Clients :
    /\ reqs[c].kind = "post" /\ reqs[c].cred = "wrong"
    /\ reqs[c].body.shape = "full"
    /\ reqs[c].status = 401
    /\ NodeIds(graph) # {}

\* C5: every query of a DELETE for a (label, id) that matches no node leaves
\* the graph unchanged, and the DELETE answers success
C5_DeleteAbsent ==
  [][\A c \in Clients :
       (/\ reqs[c].kind = "delete" /\ Running(reqs[c])
        /\ Match(graph, reqs[c].label, reqs[c].id) = {}
        /\ reqs'[c] # reqs[c]) =>
         /\ graph' = graph
         /\ reqs'[c].n = reqs[c].n + 1
         /\ reqs'[c].status = IF reqs'[c].n = 3 THEN 200 ELSE 0]_vars

\* a DELETE that found no node has succeeded on a graph that holds nodes and
\* relationships
C5_Witness ==
  \E c \in Clients :
    /\ Done(reqs[c], "delete") /\ reqs[c].seen.nodes = 0
    /\ NodeIds(graph) # {}
    /\ DOMAIN graph.edges # {}

\* C6: after a successful POST /nodes of a User u with a follows list F and a
\* subscribed list S there is a FOLLOWS edge from u to every existing User of
\* F and a SUBSCRIBED edge from u to every existing Group of S
C6_EdgesFromLists ==
  \A c \in Clients :
    (Done(reqs[c], "post") /\ reqs[c].label = "User") =>
      LET body == reqs[c].body
      IN \A u \in Match(graph, "User", body.id) :
           /\ \A k \in 1..Len(body.follows) :
                \A f \in Match(graph, "User", body.follows[k]) :
                  HasEdge(graph, "FOLLOWS", u, f)
           /\ \A k \in 1..Len(body.subscribed) :
                \A s \in Match(graph, "Group", body.subscribed[k]) :
                  HasEdge(graph, "SUBSCRIBED", u, s)

\* rows is a correct top list of the nodes of the label by incoming
\* relationships of the type
TopListOk(g, rows, label, type) ==
  LET ranked == {n \in NodeIds(g) :
                   g.nodes[n].label = label /\ InCount(g, type, {n}) >= 1}
      Shown(n) == \E k \in 1..Len(rows) :
                    rows[k].id = g.nodes[n].id /\ rows[k].name = g.nodes[n].name
  IN /\ Len(rows) <= 5
     /\ \A k \in 1..Len(rows) :
          \E n \in ranked :
            /\ rows[k].id = g.nodes[n].id /\ rows[k].name = g.nodes[n].name
            /\ rows[k].count = InCount(g, type, {n})
     /\ \A j, k \in 1..Len(rows) : j < k => rows[j].count >= rows[k].count
     /\ \A n \in ranked :
          ~Shown(n) => \A k \in 1..Len(rows) :
                         InCount(g, type, {n}) <= rows[k].count

\* C7: GET /top-users returns at most 5 Users, each with its number of
\* incoming FOLLOWS edges (at least one), in non-increasing order, leaving
\* out no User with more; GET /top-groups likewise with SUBSCRIBED edges
C7_TopLists ==
  /\ \A rows \in get_top_users_responses(graph) :
       TopListOk(graph, rows, "User", "FOLLOWS")
  /\ \A rows \in get_top_groups_responses(graph) :
       TopListOk(graph, rows, "Group", "SUBSCRIBED")

\* C8: a DELETE sends outgoing-edge removal, incoming-edge removal, node
\* removal in that order, and in every state, those between the queries of
\* concurrent requests included, every edge has its source and its target
C8_NoOrphans ==
  /\ \A e \in DOMAIN graph.edges :
       e.src \in NodeIds(graph) /\ e.dst \in NodeIds(graph)
  /\ \A c \in Clients :
       reqs[c].kind = "delete" =>
         Issued(reqs[c]) =
           SubSeq(<<"delete_out", "delete_in", "delete_node">>, 1, reqs[c].n)

\* a DELETE is between its second and third query while a POST of the other
\* client is between its queries and the graph holds relationships
C8_Witness ==
  \E c, d \in Clients :
    /\ reqs[c].kind = "delete" /\ Running(reqs[c]) /\ reqs[c].n = 2
    /\ reqs[d].kind = "post" /\ Running(reqs[d]) /\ reqs[d].n >= 1
    /\ DOMAIN graph.edges # {}

\* C9: a query that fails is not tried again: the request answers 500, the
\* graph keeps what the earlier queries of the request did, and a request
\* that has answered sends no further query
C9_NoRollback ==
  [][\A c \in Clients :
       /\ (Running(reqs[c]) /\ reqs'[c] # reqs[c]) =>
            reqs'[c].n = reqs[c].n + 1
       /\ (Running(reqs[c]) /\ reqs'[c].err = "query") =>
            (reqs'[c].status = 500 /\ graph' = graph)
       /\ (~Running(reqs[c]) /\ reqs'[c] # reqs[c]) =>
            (reqs'[c].n = 0 /\ graph' = graph)]_vars

\* the third query of a POST has failed: the request answered 500 and its
\* node is in the graph with the edge of its second query
C9_Witness ==
  \E c \in Clients :
    /\ reqs[c].kind = "post" /\ reqs[c].err = "query" /\ reqs[c].status = 500
    /\ reqs[c].n = 3
    /\ \E u \in Match(graph, "User", reqs[c].id) :
         \E e \in DOMAIN graph.edges : e.src = u /\ e.type = "FOLLOWS"

\* C10 as claimed: the node-removal query of a DELETE that runs interleaved
\* with POST requests never fails; the DELETE answers success and leaves no
\* node of its label and id when its last query completes
C10_DeleteNeverFails ==
  [][\A c \in Clients :
       (/\ reqs[c].kind = "delete" /\ Running(reqs[c]) /\ reqs[c].n = 2
        /\ reqs'[c] # reqs[c]) =>
         /\ reqs'[c].status = 200
         /\ Match(graph', reqs[c].label, reqs[c].id) = {}]_vars

\* C10 amended: the node-removal query fails, and the DELETE answers 500
\* leaving its nodes, exactly when a relationship incident to one of them
\* exists at that moment; otherwise the DELETE answers success and leaves
\* no node of its label and id when its last query completes
C10_DeleteUnderInterleaving ==
  [][\A c \in Clients :
       (/\ reqs[c].kind = "delete" /\ Running(reqs[c]) /\ reqs[c].n = 2
        /\ reqs'[c] # reqs[c]) =>
         LET M == Match(graph, reqs[c].label, reqs[c].id)
         IN IF Incident(graph, M) # {}
            THEN reqs'[c].status = 500 /\ graph' = graph
            ELSE /\ reqs'[c].status = 200
                 /\ Match(graph', reqs[c].label, reqs[c].id) = {}]_vars

\* a DELETE that found nodes has succeeded between the queries of a POST of
\* the other client for the same id, whose node it removed
C10_Witness ==
  \E c, d \in Clients :
    /\ Done(reqs[c], "delete") /\ reqs[c].seen.nodes >= 1
    /\ reqs[d].kind = "post" /\ Running(reqs[d]) /\ reqs[d].n >= 1
    /\ reqs[d].id = reqs[c].id
    /\ Match(graph, "User", reqs[d].id) = {}

====
